---- MODULE Spec2Model ----
(***************************************************************************)
(* Agri-Trust: the localStorage-backed provenance ledger                   *)
(* (services/localDb), the submission workflow of FarmerInputPage and the  *)
(* lookup of ClaimsPage.                                                   *)
(*                                                                         *)
(* Strings are TLA+ strings, joined with \o exactly where the source       *)
(* uses template literals or +.  sha256 is modelled as an injective        *)
(* function of its input string (no collisions).  new Date() is the        *)
(* variable now, uuidv4() a fresh counter.  localStorage.setItem may       *)
(* throw (quota); setLocalStorageItem catches it, so every write takes a   *)
(* flag ok saying whether the browser stored the value.                    *)
(***************************************************************************)
EXTENDS Integers, Sequences, FiniteSets, TLC

\* ------------------------------------------------------------ bounds
MaxLog == 3
MaxClock == 1
MaxUuid == 10
MaxTamper == 2
MaxClaims == 1

\* ------------------------------------------------------------ constants
LS_KEY_FARMERS == "agritrust_farmers"
LS_KEY_BATCHES == "agritrust_batches"
LS_KEY_CLAIMS == "agritrust_claims"
LS_KEY_CODES == "agritrust_codes"
LS_KEY_TRANSPARENCY_LOG == "agritrust_transparency_log"
LS_KEY_CONSUMER_ISSUES == "agritrust_consumer_issues"
LS_KEY_FEEDBACK == "agritrust_feedback"
LS_KEY_AUTH_STATE == "agritrust_auth_state"
LS_KEY_DRAFT_BATCH_PREFIX == "agritrust_draft_batch_"

\* Farmer IDs typed into the login form: a seeded farmer and an unknown one.
LoginIds == { "20230115-greenacres-1234", "20240101-nobody-0000" }

LsKeys ==
    { LS_KEY_FARMERS, LS_KEY_BATCHES, LS_KEY_CLAIMS, LS_KEY_CODES,
      LS_KEY_TRANSPARENCY_LOG, LS_KEY_CONSUMER_ISSUES, LS_KEY_FEEDBACK,
      LS_KEY_AUTH_STATE }
      \cup { LS_KEY_DRAFT_BATCH_PREFIX \o f : f \in LoginIds }

\* The keys seedData writes, in the order it writes them.
SeedKeys ==
    { LS_KEY_FARMERS, LS_KEY_BATCHES, LS_KEY_CLAIMS, LS_KEY_CODES,
      LS_KEY_TRANSPARENCY_LOG, LS_KEY_CONSUMER_ISSUES, LS_KEY_FEEDBACK }

\* JavaScript null (previousHash of the first entry).
Null == "null"

\* JavaScript undefined: a template literal renders it as "undefined".
Undefined == "undefined"

\* Arguments the library-level calls are tried with.
Digests == { "d1", "d2" }
Cids == { "c1", "c2" }
Tabs == { 1, 2 }

\* Arguments issueVerifiableCredential is tried with, and the values a
\* field of a credential is overwritten with.
FarmerIds == { "20230115-greenacres-1234" }
BatchIds == { "b1", "b1-x" }
TamperValues == { "x", Undefined }
StringFields == { "signatureValue", "cid", "issuer", "batchId", "created", "id" }

\* Values typed into the product-name field, claim types chosen, and the
\* four-digit numbers Math.random() yields for a consumer code.
ProductNames == { "", "Mangoes" }
ClaimTypes == { "Organic" }
Rands == { "1000", "1001" }

\* Outcomes of the seven writes of one seedData run that are explored: the
\* browser has room for the seed, or it has none.
SeedFaults == { [k \in SeedKeys |-> TRUE], [k \in SeedKeys |-> FALSE] }

VARIABLES
    ls,        \* localStorage: key -> [st: "absent" | "json", val: parsed value]
    now,       \* the clock read by new Date()
    uuidCtr,   \* number of uuidv4() values drawn so far
    last,      \* the last library call and what it returned
    tabPc,     \* per tab: where its appendToTransparencyLog call stands
    tabLocal,  \* per tab: the locals of that call
    vc,        \* the credential object handed to validateVcSignature
    orig,      \* the credential as issueVerifiableCredential returned it
    userId,    \* AuthContext: the logged-in farmer's ID, or Null
    form,      \* FarmerInputPage state: batchData and claims
    ui,        \* FarmerInputPage state: generalError, submissionSuccess, isSubmitting
    sub,       \* handleFinalSubmit: its position, its locals, the steps it has done
    cidMemo,   \* per payload: what the first computeCid call on it returned, and when
    timers     \* FarmerInputPage: its autosave debounce timer and its redirect timer

libVars == << last, tabPc, tabLocal, vc, orig >>
appVars == << userId, form, ui, sub >>
vars == << ls, now, uuidCtr, last, tabPc, tabLocal, vc, orig, userId, form, ui, sub,
          cidMemo, timers >>

\* ------------------------------------------------------------ primitives
sha256(s) == "h(" \o s \o ")"

toISOString(t) == "T" \o ToString(t)

uuidv4(n) == "uuid" \o ToString(n)

Absent == [st |-> "absent", val |-> <<>>]

getLocalStorageItem(s, key, defaultValue) ==
    IF s[key].st = "json" THEN s[key].val ELSE defaultValue

setLocalStorageItem(s, key, value, ok) ==
    IF ok THEN [s EXCEPT ![key] = [st |-> "json", val |-> value]] ELSE s

removeItem(s, key) == [s EXCEPT ![key] = Absent]

\* ------------------------------------------------------------ seed data
RECURSIVE stringifyClaims(_)
stringifyClaims(cs) ==
    IF cs = <<>> THEN ""
    ELSE "{" \o cs[1].id \o "," \o cs[1].batchId \o "," \o cs[1].type \o ","
             \o cs[1].createdAt \o "}" \o stringifyClaims(Tail(cs))

seedClaim(u, batchId, type, ts) ==
    [id |-> uuidv4(u), batchId |-> batchId, type |-> type, createdAt |-> ts]

\* createSeedData(): u is the number of uuids drawn before the call, ts the
\* value of new Date().toISOString() during it.
createSeedData(u, ts) ==
    LET farmers ==
            << [id |-> "20230115-greenacres-1234", name |-> "Green Acres Farm"],
               [id |-> "20230320-sunshinefarm-5678", name |-> "Sunshine Organic Farm"] >>
        batch1Claims ==
            << seedClaim(u + 1, "mock-batch-1", "Organic", ts),
               seedClaim(u + 2, "mock-batch-1", "Residue-Free", ts),
               seedClaim(u + 3, "mock-batch-1", "Fair Trade", ts) >>
        batch2Claims ==
            << seedClaim(u + 4, "mock-batch-2", "GI-Tag", ts),
               seedClaim(u + 5, "mock-batch-2", "Locally Sourced", ts) >>
        mockCid1 == sha256("{Organic Apples}" \o stringifyClaims(batch1Claims))
        mockVcDigest1 == sha256(mockCid1 \o ts \o "did:example:123#key1")
        mockCid2 == sha256("{Heritage Tomatoes}" \o stringifyClaims(batch2Claims))
        mockVcDigest2 == sha256(mockCid2 \o ts \o "did:example:456#key2")
    IN  [ farmers |-> farmers,
          batches |->
            << [id |-> "mock-batch-1", farmerId |-> farmers[1].id,
                farmerName |-> farmers[1].name,
                productName |-> "Organic Apples",
                consumerCode |-> "AGRITRUST-1234",
                cid |-> mockCid1, vcDigest |-> mockVcDigest1,
                createdAt |-> ts],
               [id |-> "mock-batch-2", farmerId |-> farmers[2].id,
                farmerName |-> farmers[2].name,
                productName |-> "Heritage Tomatoes",
                consumerCode |-> "AGRITRUST-5678",
                cid |-> mockCid2, vcDigest |-> mockVcDigest2,
                createdAt |-> ts] >>,
          allClaims |-> batch1Claims \o batch2Claims,
          codes |->
            [c \in { "AGRITRUST-1234", "AGRITRUST-5678" } |->
                IF c = "AGRITRUST-1234"
                THEN [cid |-> mockCid1, vcDigest |-> mockVcDigest1,
                      batchId |-> "mock-batch-1"]
                ELSE [cid |-> mockCid2, vcDigest |-> mockVcDigest2,
                      batchId |-> "mock-batch-2"]],
          transparencyLog |->
            << [index |-> 0, digest |-> mockVcDigest1, previousHash |-> Null,
                timestamp |-> ts, cid |-> mockCid1],
               [index |-> 1, digest |-> mockVcDigest2,
                previousHash |-> mockVcDigest1,
                timestamp |-> ts, cid |-> mockCid2] >> ]

\* seedData(): oks[k] says whether the write of key k was stored.
seedData(s, u, ts, oks) ==
    IF s[LS_KEY_FARMERS].st = "absent"
    THEN LET d == createSeedData(u, ts)
             s1 == setLocalStorageItem(s, LS_KEY_FARMERS, d.farmers, oks[LS_KEY_FARMERS])
             s2 == setLocalStorageItem(s1, LS_KEY_BATCHES, d.batches, oks[LS_KEY_BATCHES])
             s3 == setLocalStorageItem(s2, LS_KEY_CLAIMS, d.allClaims, oks[LS_KEY_CLAIMS])
             s4 == setLocalStorageItem(s3, LS_KEY_CODES, d.codes, oks[LS_KEY_CODES])
             s5 == setLocalStorageItem(s4, LS_KEY_TRANSPARENCY_LOG, d.transparencyLog,
                                       oks[LS_KEY_TRANSPARENCY_LOG])
             s6 == setLocalStorageItem(s5, LS_KEY_CONSUMER_ISSUES, <<>>,
                                       oks[LS_KEY_CONSUMER_ISSUES])
             s7 == setLocalStorageItem(s6, LS_KEY_FEEDBACK, <<>>, oks[LS_KEY_FEEDBACK])
         IN  removeItem(s7, LS_KEY_AUTH_STATE)
    ELSE s

\* ------------------------------------------------------------ transparency log
getTransparencyLog(s) == getLocalStorageItem(s, LS_KEY_TRANSPARENCY_LOG, <<>>)

\* Mutant of newEntry: previousHash taken from the first entry instead of
\* the last one.
newEntry_prevFromFirst(log, vcDigest, cid, ts) ==
    [ index |-> Len(log),
      digest |-> vcDigest,
      previousHash |-> IF Len(log) > 0 THEN log[1].digest ELSE Null,
      timestamp |-> ts,
      cid |-> cid ]

\* The entry appendToTransparencyLog builds from the log it has read.
newEntry(log, vcDigest, cid, ts) ==
    [ index |-> Len(log),
      digest |-> vcDigest,
      previousHash |-> IF Len(log) > 0 THEN log[Len(log)].digest ELSE Null,
      timestamp |-> ts,
      cid |-> cid ]

\* appendToTransparencyLog(vcDigest, cid): the storage after the call and
\* the value returned.
appendToTransparencyLog(s, vcDigest, cid, ts, ok) ==
    LET log == getTransparencyLog(s)
        e == newEntry(log, vcDigest, cid, ts)
    IN  [ store |-> setLocalStorageItem(s, LS_KEY_TRANSPARENCY_LOG, Append(log, e), ok),
          ret |-> e.index ]

\* Mutant of findByDigest: the last matching entry instead of the first.
RECURSIVE findByDigest_last(_, _)
findByDigest_last(log, vcDigest) ==
    IF log = <<>> THEN <<>>
    ELSE IF log[Len(log)].digest = vcDigest THEN << log[Len(log)] >>
    ELSE findByDigest_last(SubSeq(log, 1, Len(log) - 1), vcDigest)

\* Array.prototype.find on the digest: the first matching entry, as a
\* sequence of length 0 (undefined) or 1.
RECURSIVE findByDigest(_, _)
findByDigest(log, vcDigest) ==
    IF log = <<>> THEN <<>>
    ELSE IF Head(log).digest = vcDigest THEN << Head(log) >>
    ELSE findByDigest(Tail(log), vcDigest)

checkTransparencyLog(s, vcDigest, expectedCid) ==
    LET log == getTransparencyLog(s)
        entry == findByDigest(log, vcDigest)
    IN  IF entry = <<>> THEN [exists |-> FALSE, consistent |-> FALSE]
        ELSE IF entry[1].cid # expectedCid
             THEN [exists |-> TRUE, consistent |-> FALSE]
             ELSE [exists |-> TRUE, consistent |-> TRUE]

\* ------------------------------------------------------------ credentials
\* A credential object: kind "null" is null/undefined, hasSubject and
\* hasProof say whether credentialSubject and proof are there, the other
\* fields hold a string or Undefined.
NullVc ==
    [ kind |-> "null", id |-> Undefined, issuer |-> Undefined,
      issuanceDate |-> Undefined,
      hasSubject |-> FALSE, subjectId |-> Undefined, cid |-> Undefined,
      batchId |-> Undefined, farmerId |-> Undefined,
      hasProof |-> FALSE, proofType |-> Undefined, created |-> Undefined,
      verificationMethod |-> Undefined, signatureValue |-> Undefined ]

\* `${cid}-${timestamp}-${issuerDid}-${batchId}-secret-key`
signedString(cid, timestamp, issuerDid, batchId) ==
    cid \o "-" \o timestamp \o "-" \o issuerDid \o "-" \o batchId \o "-secret-key"

\* JSON.stringify(vcObject): the fields in the order the literal lists them.
stringifyVc(v) ==
    "{ctx,type," \o v.id \o "," \o v.issuer \o "," \o v.issuanceDate
      \o ",{" \o v.subjectId \o "," \o v.cid \o "," \o v.batchId \o ","
      \o v.farmerId \o "},{" \o v.proofType \o "," \o v.created \o ","
      \o v.verificationMethod \o ",assertionMethod," \o v.signatureValue \o "}}"

\* issueVerifiableCredential(cid, farmerId, batchId): ts is the value of
\* new Date().toISOString(), u the number of uuids drawn before the call.
issueVerifiableCredential(cid, farmerId, batchId, ts, u) ==
    LET issuerDid == "did:agritrust:" \o farmerId
        mockSignature == sha256(signedString(cid, ts, issuerDid, batchId))
        vcObject ==
            [ kind |-> "object",
              id |-> "vc:" \o uuidv4(u + 1),
              issuer |-> issuerDid,
              issuanceDate |-> ts,
              hasSubject |-> TRUE,
              subjectId |-> "did:agritrust:batch:" \o batchId,
              cid |-> cid,
              batchId |-> batchId,
              farmerId |-> farmerId,
              hasProof |-> TRUE,
              proofType |-> "Ed25519Signature2020",
              created |-> ts,
              verificationMethod |-> issuerDid \o "#key1",
              signatureValue |-> mockSignature ]
    IN  [vcObject |-> vcObject, vcDigest |-> sha256(stringifyVc(vcObject))]

\* !x for a string, null or undefined.
Falsy(x) == x \in { Undefined, Null, "" }

\* Mutant of validateVcSignature: the signature is recomputed over the
\* subject's farmerId where the code uses the issuer.
validateVcSignature_usesFarmerId(v) ==
    LET signatureValue ==
            IF v.kind = "object" /\ v.hasProof THEN v.signatureValue ELSE Undefined
        created ==
            IF v.kind = "object" /\ v.hasProof THEN v.created ELSE Undefined
        issuer == IF v.kind = "object" THEN v.issuer ELSE Undefined
    IN  IF Falsy(signatureValue) \/ Falsy(created) \/ Falsy(issuer)
        THEN "false"
        ELSE IF ~v.hasSubject THEN "TypeError"
        ELSE IF sha256(signedString(v.cid, created, v.farmerId, v.batchId))
                  = signatureValue
             THEN "true"
             ELSE "false"

\* Mutant of validateVcSignature: the issuer is left out of the recomputed
\* signature's comparison, so a credential passes whatever its issuer says.
validateVcSignature_ignoresIssuer(v) ==
    LET signatureValue ==
            IF v.kind = "object" /\ v.hasProof THEN v.signatureValue ELSE Undefined
        created ==
            IF v.kind = "object" /\ v.hasProof THEN v.created ELSE Undefined
        issuer == IF v.kind = "object" THEN v.issuer ELSE Undefined
    IN  IF Falsy(signatureValue) \/ Falsy(created) \/ Falsy(issuer)
        THEN "false"
        ELSE IF ~v.hasSubject THEN "TypeError"
        ELSE IF sha256(signedString(v.cid, created,
                                    "did:agritrust:" \o v.farmerId, v.batchId))
                  = signatureValue
             THEN "true"
             ELSE "false"

\* Mutant of validateVcSignature: proof is read without optional chaining,
\* so a missing proof or a null credential throws.
validateVcSignature_noOptionalChaining(v) ==
    IF v.kind # "object" \/ ~v.hasProof THEN "TypeError"
    ELSE IF Falsy(v.signatureValue) \/ Falsy(v.created) \/ Falsy(v.issuer)
    THEN "false"
    ELSE IF ~v.hasSubject THEN "TypeError"
    ELSE IF sha256(signedString(v.cid, v.created, v.issuer, v.batchId))
              = v.signatureValue
         THEN "true"
         ELSE "false"

\* Mutant of validateVcSignature: a credential whose issuanceDate is not its
\* proof's created is rejected as well.
validateVcSignature_checksIssuanceDate(v) ==
    LET signatureValue ==
            IF v.kind = "object" /\ v.hasProof THEN v.signatureValue ELSE Undefined
        created ==
            IF v.kind = "object" /\ v.hasProof THEN v.created ELSE Undefined
        issuer == IF v.kind = "object" THEN v.issuer ELSE Undefined
    IN  IF Falsy(signatureValue) \/ Falsy(created) \/ Falsy(issuer)
        THEN "false"
        ELSE IF ~v.hasSubject THEN "TypeError"
        ELSE IF sha256(signedString(v.cid, created, issuer, v.batchId))
                  = signatureValue /\ v.issuanceDate = created
             THEN "true"
             ELSE "false"

\* validateVcSignature(vcObject): "true", "false", or "TypeError" when the
\* read of credentialSubject.cid throws.
validateVcSignature(v) ==
    LET signatureValue ==
            IF v.kind = "object" /\ v.hasProof THEN v.signatureValue ELSE Undefined
        created ==
            IF v.kind = "object" /\ v.hasProof THEN v.created ELSE Undefined
        issuer == IF v.kind = "object" THEN v.issuer ELSE Undefined
    IN  IF Falsy(signatureValue) \/ Falsy(created) \/ Falsy(issuer)
        THEN "false"
        ELSE IF ~v.hasSubject THEN "TypeError"
        ELSE IF sha256(signedString(v.cid, created, issuer, v.batchId))
                  = signatureValue
             THEN "true"
             ELSE "false"

\* ------------------------------------------------------------ stores
getFarmers(s) == getLocalStorageItem(s, LS_KEY_FARMERS, <<>>)

\* Array.prototype.find on the id: a sequence of length 0 (undefined) or 1.
getFarmerById(s, id) == SelectSeq(getFarmers(s), LAMBDA f : f.id = id)

getBatches(s) == getLocalStorageItem(s, LS_KEY_BATCHES, <<>>)

addBatch(s, batch, ok) ==
    setLocalStorageItem(s, LS_KEY_BATCHES, Append(getBatches(s), batch), ok)

getClaims(s) == getLocalStorageItem(s, LS_KEY_CLAIMS, <<>>)

addClaim(s, claim, ok) ==
    setLocalStorageItem(s, LS_KEY_CLAIMS, Append(getClaims(s), claim), ok)

\* The object stored under LS_KEY_CODES, as a function from codes.
getCodes(s) == getLocalStorageItem(s, LS_KEY_CODES, << >>)

\* getCodeMapping(consumerCode) is undefined.
NoCodeMapping(s, consumerCode) == consumerCode \notin DOMAIN getCodes(s)

getCodeMapping(s, consumerCode) == getCodes(s)[consumerCode]

addCodeMapping(s, consumerCode, cid, vcDigest, batchId, ok) ==
    LET codes == getCodes(s)
        m == [cid |-> cid, vcDigest |-> vcDigest, batchId |-> batchId]
    IN  setLocalStorageItem(s, LS_KEY_CODES,
            [c \in DOMAIN codes \cup { consumerCode } |->
                IF c = consumerCode THEN m ELSE codes[c]], ok)

\* Array.prototype.find on the id: a sequence of length 0 (undefined) or 1.
getBatchById(s, id) == SelectSeq(getBatches(s), LAMBDA b : b.id = id)

getClaimsByBatchId(s, batchId) == SelectSeq(getClaims(s), LAMBDA c : c.batchId = batchId)

clearDraftBatch(s, farmerId) == removeItem(s, LS_KEY_DRAFT_BATCH_PREFIX \o farmerId)

saveDraftBatch(s, farmerId, data, ok) ==
    setLocalStorageItem(s, LS_KEY_DRAFT_BATCH_PREFIX \o farmerId, data, ok)

\* getDraftBatch(farmerId) is not undefined.
hasDraftBatch(s, farmerId) == s[LS_KEY_DRAFT_BATCH_PREFIX \o farmerId].st = "json"

getDraftBatch(s, farmerId) == s[LS_KEY_DRAFT_BATCH_PREFIX \o farmerId].val

\* JSON.stringify of a batch: its fields in the order the literal lists them.
stringifyBatch(b) ==
    "{" \o b.id \o "," \o b.farmerId \o "," \o b.farmerName \o ","
        \o b.productName \o "," \o b.consumerCode \o "," \o b.cid \o ","
        \o b.vcDigest \o "," \o b.createdAt \o "}"

\* Mutant of computeCid: the digest also covers the time of the call.
computeCid_readsClock(batch, claims) ==
    sha256("{" \o stringifyBatch(batch) \o ",[" \o stringifyClaims(claims) \o "]}"
               \o toISOString(now))

\* computeCid({ batch, claims })
computeCid(batch, claims) ==
    sha256("{" \o stringifyBatch(batch) \o ",[" \o stringifyClaims(claims) \o "]}")

\* ------------------------------------------------------------ state
\* What ClaimsPage shows before fetchData has set anything.
NoView ==
    [ error |-> Null, batchFound |-> FALSE, vcValid |-> Null,
      logExists |-> Null, logConsistent |-> Null ]

NoCall ==
    [ op |-> "none", d |-> "", c |-> "", n |-> 0, index |-> 0,
      exists |-> FALSE, consistent |-> FALSE, valid |-> "",
      code |-> "", view |-> NoView, args |-> <<>> ]

IdleTab ==
    [ log |-> <<>>, d |-> "", c |-> "", ret |-> 0, stored |-> FALSE,
      code |-> "", batch |-> <<>> ]

\* useState({}) and useState([]) of FarmerInputPage.
EmptyForm == [batchData |-> [productName |-> Undefined], claims |-> <<>>]

IdleUi == [generalError |-> Null, submissionSuccess |-> Null, isSubmitting |-> FALSE]

NoBatch ==
    [ id |-> "", farmerId |-> "", farmerName |-> "", productName |-> "",
      consumerCode |-> "", cid |-> "", vcDigest |-> "", createdAt |-> "" ]

\* No handleFinalSubmit call is running and none has run since the page loaded.
IdleSub ==
    [ pc |-> "idle", outcome |-> "none", steps |-> <<>>, logLen0 |-> 0,
      ls0 |-> <<>>, stored |-> <<>>, consumerCode |-> "", farmerName |-> "",
      finalBatch |-> NoBatch, finalClaims |-> <<>>, todo |-> <<>>,
      cid |-> "", vcDigest |-> "" ]

\* Payloads handed to computeCid: { batch, claims } objects.
Payloads ==
    << [ batch |-> [NoBatch EXCEPT !.id = "b1", !.productName = "Mangoes"],
         claims |-> <<>> ],
       [ batch |-> [NoBatch EXCEPT !.id = "b1", !.productName = "Mangoes"],
         claims |-> << [id |-> "k1", batchId |-> "b1", type |-> "Organic",
                        createdAt |-> "T0"] >> ],
       [ batch |-> [NoBatch EXCEPT !.id = "b2", !.productName = "Wheat"],
         claims |-> <<>> ] >>

\* computeCid has not been called on the payload.
NoMemo == [called |-> FALSE, digest |-> "", store |-> <<>>, clock |-> 0]

\* No timer is set; armedBy names what set the last autosave timer.
NoTimer == [autosave |-> FALSE, armedBy |-> "none", redirect |-> FALSE]

\* The autosave effect has run after a state change and set its 1000 ms timer.
Armed(t, by) == [t EXCEPT !.autosave = TRUE, !.armedBy = by]

Init ==
    /\ ls = [k \in LsKeys |-> Absent]
    /\ now = 0
    /\ uuidCtr = 0
    /\ last = NoCall
    /\ tabPc = [t \in Tabs |-> "idle"]
    /\ tabLocal = [t \in Tabs |-> IdleTab]
    /\ vc = NullVc
    /\ orig = NullVc
    /\ userId = Null
    /\ form = EmptyForm
    /\ ui = IdleUi
    /\ sub = IdleSub
    /\ cidMemo = [i \in DOMAIN Payloads |-> NoMemo]
    /\ timers = NoTimer

\* ------------------------------------------------------------ library calls
Tick ==
    /\ now < MaxClock
    /\ now' = now + 1
    /\ UNCHANGED << ls, uuidCtr, libVars, appVars, cidMemo, timers >>

\* index.tsx runs seedData() on every page load.
SeedDataCall ==
    /\ uuidCtr + 5 <= MaxUuid
    /\ \E oks \in SeedFaults :
          ls' = seedData(ls, uuidCtr, toISOString(now), oks)
    /\ uuidCtr' = IF ls[LS_KEY_FARMERS].st = "absent" THEN uuidCtr + 5 ELSE uuidCtr
    /\ last' = [NoCall EXCEPT !.op = "seed"]
    /\ UNCHANGED << now, tabPc, tabLocal, vc, orig, appVars, cidMemo, timers >>

AppendCall(d, c) ==
    /\ Len(getTransparencyLog(ls)) < MaxLog
    /\ \E ok \in BOOLEAN :
          LET r == appendToTransparencyLog(ls, d, c, toISOString(now), ok)
          IN  /\ ls' = r.store
              /\ last' = [NoCall EXCEPT !.op = "append", !.d = d, !.c = c,
                                        !.n = Len(getTransparencyLog(ls)),
                                        !.index = r.ret]
    /\ UNCHANGED << now, uuidCtr, tabPc, tabLocal, vc, orig, appVars, cidMemo, timers >>

CheckCall(d, c) ==
    /\ LET r == checkTransparencyLog(ls, d, c)
       IN  last' = [NoCall EXCEPT !.op = "check", !.d = d, !.c = c,
                                  !.exists = r.exists,
                                  !.consistent = r.consistent]
    /\ UNCHANGED << ls, now, uuidCtr, tabPc, tabLocal, vc, orig, appVars, cidMemo, timers >>

NextLog ==
    \/ Tick
    \/ SeedDataCall
    \/ \E d \in Digests, c \in Cids : AppendCall(d, c)
    \/ \E d \in Digests, c \in Cids : CheckCall(d, c)

SpecLog == Init /\ [][NextLog]_vars

\* ------------------------------------------------------------ computeCid calls
\* computeCid(Payloads[i]); the first call on a payload is remembered
\* together with the storage and the clock it ran under.
ComputeCidCall(i) ==
    /\ LET digest == computeCid(Payloads[i].batch, Payloads[i].claims)
       IN  /\ last' = [NoCall EXCEPT !.op = "computeCid", !.n = i, !.c = digest]
           /\ cidMemo' = IF cidMemo[i].called THEN cidMemo
                         ELSE [cidMemo EXCEPT ![i] =
                                  [ called |-> TRUE, digest |-> digest,
                                    store |-> ls, clock |-> now ]]
    /\ UNCHANGED << ls, now, uuidCtr, tabPc, tabLocal, vc, orig, appVars, timers >>

NextCid ==
    \/ Tick
    \/ SeedDataCall
    \/ \E i \in DOMAIN Payloads : ComputeCidCall(i)

SpecCid == Init /\ [][NextCid]_vars

\* ------------------------------------------------------------ two tabs
\* appendToTransparencyLog run by two tabs on the same localStorage: the
\* read of the log (getTransparencyLog) and the write of the extended log
\* (setLocalStorageItem) are separate steps, and nothing orders the steps
\* of one tab against those of the other.
TabRead(t, d, c) ==
    /\ tabPc[t] = "idle"
    /\ Len(getTransparencyLog(ls)) < MaxLog
    /\ tabLocal' = [tabLocal EXCEPT ![t] =
                       [IdleTab EXCEPT !.log = getTransparencyLog(ls),
                                       !.d = d, !.c = c]]
    /\ tabPc' = [tabPc EXCEPT ![t] = "read"]
    /\ UNCHANGED << ls, now, uuidCtr, last, vc, orig, appVars, cidMemo, timers >>

TabWrite(t) ==
    /\ tabPc[t] = "read"
    /\ \E ok \in BOOLEAN :
          LET e == newEntry(tabLocal[t].log, tabLocal[t].d, tabLocal[t].c,
                            toISOString(now))
          IN  /\ ls' = setLocalStorageItem(ls, LS_KEY_TRANSPARENCY_LOG,
                                           Append(tabLocal[t].log, e), ok)
              /\ tabLocal' = [tabLocal EXCEPT ![t].ret = e.index,
                                              ![t].stored = ok]
    /\ tabPc' = [tabPc EXCEPT ![t] = "done"]
    /\ UNCHANGED << now, uuidCtr, last, vc, orig, appVars, cidMemo, timers >>

TabReturn(t) ==
    /\ tabPc[t] = "done"
    /\ tabPc' = [tabPc EXCEPT ![t] = "idle"]
    /\ tabLocal' = [tabLocal EXCEPT ![t] = IdleTab]
    /\ UNCHANGED << ls, now, uuidCtr, last, vc, orig, appVars, cidMemo, timers >>

NextTabs ==
    \/ \E t \in Tabs, d \in Digests, c \in Cids : TabRead(t, d, c)
    \/ \E t \in Tabs : TabWrite(t)
    \/ \E t \in Tabs : TabReturn(t)

SpecTabs == Init /\ [][NextTabs]_vars

\* ------------------------------------------------------------ credential calls
\* The fields in which credential a differs from credential b.
Diff(a, b) ==
    { f \in StringFields : a[f] # b[f] }
      \cup (IF a.hasSubject # b.hasSubject THEN { "credentialSubject" } ELSE {})
      \cup (IF a.hasProof # b.hasProof THEN { "proof" } ELSE {})
      \cup (IF a.kind # b.kind THEN { "kind" } ELSE {})

IssueCall(cid, farmerId, batchId) ==
    /\ uuidCtr < MaxUuid
    /\ LET r == issueVerifiableCredential(cid, farmerId, batchId,
                                          toISOString(now), uuidCtr)
       IN  /\ vc' = r.vcObject
           /\ orig' = r.vcObject
    /\ uuidCtr' = uuidCtr + 1
    /\ last' = [NoCall EXCEPT !.op = "issue"]
    /\ UNCHANGED << ls, now, tabPc, tabLocal, appVars, cidMemo, timers >>

\* The holder of a credential overwrites or removes one of its parts.
TamperTo(v) ==
    /\ vc.kind = "object"
    /\ Cardinality(Diff(v, orig)) <= MaxTamper
    /\ vc' = v
    /\ last' = [NoCall EXCEPT !.op = "tamper"]
    /\ UNCHANGED << ls, now, uuidCtr, tabPc, tabLocal, orig, appVars, cidMemo, timers >>

TamperCall ==
    \/ \E f \in StringFields, x \in TamperValues : TamperTo([vc EXCEPT ![f] = x])
    \/ TamperTo([vc EXCEPT !.hasSubject = FALSE])
    \/ TamperTo([vc EXCEPT !.hasProof = FALSE])

ValidateCall ==
    /\ last' = [NoCall EXCEPT !.op = "validate", !.valid = validateVcSignature(vc)]
    /\ UNCHANGED << ls, now, uuidCtr, tabPc, tabLocal, vc, orig, appVars, cidMemo, timers >>

NextVc ==
    \/ Tick
    \/ \E cid \in Cids, f \in FarmerIds, b \in BatchIds : IssueCall(cid, f, b)
    \/ TamperCall
    \/ ValidateCall

SpecVc == Init /\ [][NextVc]_vars

\* ------------------------------------------------------------ lookup index calls
\* Codes handed to addCodeMapping: a seeded one and a new one.
IndexCodes == { "AGRITRUST-1234", "AGRITRUST-YYMMDD-1000" }

AddCodeMappingCall(consumerCode, cid, vcDigest, batchId) ==
    /\ \E ok \in BOOLEAN :
          ls' = addCodeMapping(ls, consumerCode, cid, vcDigest, batchId, ok)
    /\ last' = [NoCall EXCEPT !.op = "addCode", !.d = vcDigest, !.c = cid]
    /\ UNCHANGED << now, uuidCtr, tabPc, tabLocal, vc, orig, appVars, cidMemo, timers >>

NextIdx ==
    \/ SeedDataCall
    \/ \E code \in IndexCodes, c \in Cids, d \in Digests, b \in BatchIds :
          AddCodeMappingCall(code, c, d, b)

SpecIdx == Init /\ [][NextIdx]_vars

\* ------------------------------------------------------------ the application
DraftLoadedMessage == "Draft data loaded. You can continue where you left off."

\* The mount of FarmerInputPage for this user: its state starts empty, the
\* loadDraft effect fills it, and once isLoadingDraft is false the autosave
\* effect sets its timer.
loadDraft(s, id) ==
    IF id = Null
    THEN form' = EmptyForm /\ ui' = IdleUi /\ timers' = NoTimer
    ELSE IF hasDraftBatch(s, id)
    THEN /\ form' = getDraftBatch(s, id)
         /\ ui' = [IdleUi EXCEPT !.generalError = DraftLoadedMessage]
         /\ timers' = Armed(NoTimer, "load")
    ELSE IF getFarmerById(s, id) # <<>>
    THEN form' = EmptyForm /\ ui' = IdleUi /\ timers' = Armed(NoTimer, "load")
    ELSE /\ form' = EmptyForm
         /\ ui' = [IdleUi EXCEPT !.generalError =
                       "Farmer not found in local database. Please try logging in again."]
         /\ timers' = NoTimer

\* A page load: index.tsx runs seedData(), the component state starts empty
\* and AuthContext restores the session seedData left in storage.
PageLoad ==
    /\ sub.pc = "idle"
    /\ uuidCtr + 5 <= MaxUuid
    /\ \E oks \in SeedFaults :
          /\ ls' = seedData(ls, uuidCtr, toISOString(now), oks)
          /\ userId' = getLocalStorageItem(ls', LS_KEY_AUTH_STATE, Null)
    /\ uuidCtr' = IF ls[LS_KEY_FARMERS].st = "absent" THEN uuidCtr + 5 ELSE uuidCtr
    /\ loadDraft(ls', userId')
    /\ sub' = IdleSub
    /\ UNCHANGED << now, libVars, cidMemo >>

\* LoginPage.handleFarmerLogin with a well-formed farmer ID typed in; ok says
\* whether AuthContext.login's write of the session was stored.
handleFarmerLogin(id) ==
    /\ sub.pc = "idle"
    /\ userId = Null
    /\ getFarmerById(ls, id) # <<>>
    /\ userId' = id
    /\ \E ok \in BOOLEAN : ls' = setLocalStorageItem(ls, LS_KEY_AUTH_STATE, id, ok)
    /\ loadDraft(ls', id)
    /\ sub' = IdleSub
    /\ UNCHANGED << now, uuidCtr, libVars, cidMemo >>

handleInputChange(value) ==
    /\ sub.pc = "idle"
    /\ userId # Null
    /\ form.batchData.productName # value
    /\ form' = [form EXCEPT !.batchData.productName = value]
    /\ timers' = Armed(timers, "edit")
    /\ UNCHANGED << ls, now, uuidCtr, libVars, userId, ui, sub, cidMemo >>

\* handleSaveClaim adding a new claim of the given type.
handleSaveClaim(type) ==
    /\ sub.pc = "idle"
    /\ userId # Null
    /\ Len(form.claims) < MaxClaims
    /\ uuidCtr < MaxUuid
    /\ form' = [form EXCEPT !.claims =
                   Append(@, [id |-> uuidv4(uuidCtr + 1), batchId |-> Undefined,
                              type |-> type, createdAt |-> Undefined])]
    /\ uuidCtr' = uuidCtr + 1
    /\ timers' = Armed(timers, "edit")
    /\ UNCHANGED << ls, now, libVars, userId, ui, sub, cidMemo >>

\* validateAllInputs() for the required product-name question.
validateAllInputs(batchData) ==
    ~(batchData.productName \in { Undefined, Null, "" })

\* Mutant of SubmitStart: setIsSubmitting(true) comes before the validation
\* and the early return leaves it set.
SubmitStart_submittingFirst ==
    /\ sub.pc = "idle"
    /\ userId # Null
    /\ uuidCtr + 2 <= MaxUuid
    /\ IF ~validateAllInputs(form.batchData)
       THEN /\ ui' = [generalError |-> "Please correct the errors",
                      submissionSuccess |-> Null, isSubmitting |-> TRUE]
            /\ sub' = [IdleSub EXCEPT !.outcome = "invalid"]
       ELSE /\ ui' = [generalError |-> Null, submissionSuccess |-> Null,
                      isSubmitting |-> TRUE]
            /\ sub' = [IdleSub EXCEPT !.pc = "code", !.ls0 = ls,
                                      !.logLen0 = Len(getTransparencyLog(ls))]
    /\ UNCHANGED << ls, now, uuidCtr, libVars, userId, form, cidMemo, timers >>

\* handleFinalSubmit up to the try block.
SubmitStart ==
    /\ sub.pc = "idle"
    /\ userId # Null
    /\ uuidCtr + 2 <= MaxUuid
    /\ IF ~validateAllInputs(form.batchData)
       THEN /\ ui' = [generalError |-> "Please correct the errors",
                      submissionSuccess |-> Null, isSubmitting |-> FALSE]
            /\ sub' = [IdleSub EXCEPT !.outcome = "invalid"]
       ELSE /\ ui' = [generalError |-> Null, submissionSuccess |-> Null,
                      isSubmitting |-> TRUE]
            /\ sub' = [IdleSub EXCEPT !.pc = "code", !.ls0 = ls,
                                      !.logLen0 = Len(getTransparencyLog(ls))]
    /\ UNCHANGED << ls, now, uuidCtr, libVars, userId, form, cidMemo, timers >>

ExhaustedMessage == "Failed to generate a unique consumer code after multiple attempts."

\* Mutant of Thrown: the catch block shows nothing to the user.
Thrown_silent(message) ==
    /\ ui' = [ui EXCEPT !.isSubmitting = FALSE]
    /\ sub' = [sub EXCEPT !.pc = "idle", !.outcome = "error"]

\* catch and finally of handleFinalSubmit after a throw with this message.
Thrown(message) ==
    /\ ui' = [ui EXCEPT !.generalError = message, !.isSubmitting = FALSE]
    /\ sub' = [sub EXCEPT !.pc = "idle", !.outcome = "error"]

consumerCodeOf(rand) == "AGRITRUST-YYMMDD-" \o rand

\* Step 1: the loop keeps the first drawn code that has no mapping; it ends
\* without one only if every draw hit a mapped code, and then the farmer
\* check that follows is not reached.
SubGenCode ==
    /\ sub.pc = "code"
    /\ \/ \E rand \in Rands :
             /\ NoCodeMapping(ls, consumerCodeOf(rand))
             /\ IF getFarmerById(ls, userId) = <<>>
                THEN Thrown("Farmer details missing for submission.")
                ELSE /\ sub' = [sub EXCEPT !.pc = "batch",
                                   !.consumerCode = consumerCodeOf(rand),
                                   !.farmerName = getFarmerById(ls, userId)[1].name,
                                   !.steps = Append(@, "code")]
                     /\ ui' = ui
       \/ /\ \E rand \in Rands : ~NoCodeMapping(ls, consumerCodeOf(rand))
          /\ Thrown(ExhaustedMessage)
    /\ UNCHANGED << ls, now, uuidCtr, libVars, userId, form, cidMemo, timers >>

\* x || d
OrDefault(x, d) == IF Falsy(x) THEN d ELSE x

\* Step 2: the final Batch object.
SubBatch ==
    /\ sub.pc = "batch"
    /\ uuidCtr < MaxUuid
    /\ uuidCtr' = uuidCtr + 1
    /\ sub' = [sub EXCEPT !.pc = "claims", !.steps = Append(@, "batch"),
                  !.finalBatch =
                      [ id |-> uuidv4(uuidCtr + 1),
                        farmerId |-> userId,
                        farmerName |-> sub.farmerName,
                        productName |-> OrDefault(form.batchData.productName,
                                                  "Unknown Product"),
                        consumerCode |-> sub.consumerCode,
                        cid |-> "",
                        vcDigest |-> "",
                        createdAt |-> toISOString(now) ]]
    /\ UNCHANGED << ls, now, libVars, userId, form, ui, cidMemo, timers >>

\* One element of claims.map(...) in step 3.
stampClaim(claim, finalBatchId, ts) ==
    [claim EXCEPT !.batchId = finalBatchId, !.createdAt = OrDefault(@, ts)]

\* Step 3: the claims get the batch's id and their missing timestamps.
SubClaims ==
    /\ sub.pc = "claims"
    /\ sub' = [sub EXCEPT !.pc = "cid", !.steps = Append(@, "claims"),
                  !.finalClaims =
                      [i \in 1..Len(form.claims) |->
                          stampClaim(form.claims[i], sub.finalBatch.id,
                                     toISOString(now))]]
    /\ UNCHANGED << ls, now, uuidCtr, libVars, userId, form, ui, cidMemo, timers >>

\* Step 4: the CID of batch and claims, stored in the batch.
SubCid ==
    /\ sub.pc = "cid"
    /\ LET cid == computeCid(sub.finalBatch, sub.finalClaims)
       IN  sub' = [sub EXCEPT !.pc = "vc", !.steps = Append(@, "cid"),
                       !.cid = cid, !.finalBatch.cid = cid]
    /\ UNCHANGED << ls, now, uuidCtr, libVars, userId, form, ui, cidMemo, timers >>

\* Step 5: the credential is issued; its digest is stored in the batch.
SubVc ==
    /\ sub.pc = "vc"
    /\ uuidCtr < MaxUuid
    /\ uuidCtr' = uuidCtr + 1
    /\ LET r == issueVerifiableCredential(sub.cid, userId, sub.finalBatch.id,
                                          toISOString(now), uuidCtr)
       IN  sub' = [sub EXCEPT !.pc = "log", !.steps = Append(@, "vc"),
                       !.vcDigest = r.vcDigest,
                       !.finalBatch.vcDigest = r.vcDigest]
    /\ UNCHANGED << ls, now, libVars, userId, form, ui, cidMemo, timers >>

\* Step 6: appendToTransparencyLog(vcDigest, cid).
SubLog ==
    /\ sub.pc = "log"
    /\ \E ok \in BOOLEAN :
          /\ ls' = appendToTransparencyLog(ls, sub.vcDigest, sub.cid,
                                          toISOString(now), ok).store
          /\ sub' = [sub EXCEPT !.pc = "addBatch", !.steps = Append(@, "log"),
                         !.stored = Append(@, ok)]
    /\ UNCHANGED << now, uuidCtr, libVars, userId, form, ui, cidMemo, timers >>

\* Step 7, first call: addBatch(finalBatch).
SubAddBatch ==
    /\ sub.pc = "addBatch"
    /\ \E ok \in BOOLEAN :
          /\ ls' = addBatch(ls, sub.finalBatch, ok)
          /\ sub' = [sub EXCEPT !.pc = "addClaim", !.steps = Append(@, "addBatch"),
                         !.todo = sub.finalClaims,
                         !.stored = Append(@, ok)]
    /\ UNCHANGED << now, uuidCtr, libVars, userId, form, ui, cidMemo, timers >>

\* Step 7, finalClaims.forEach(addClaim): one claim per step, then on.
SubAddClaim ==
    /\ sub.pc = "addClaim"
    /\ IF sub.todo = <<>>
       THEN /\ sub' = [sub EXCEPT !.pc = "addCode", !.steps = Append(@, "addClaims")]
            /\ ls' = ls
       ELSE \E ok \in BOOLEAN :
               /\ ls' = addClaim(ls, Head(sub.todo), ok)
               /\ sub' = [sub EXCEPT !.todo = Tail(@), !.stored = Append(@, ok)]
    /\ UNCHANGED << now, uuidCtr, libVars, userId, form, ui, cidMemo, timers >>

\* Step 7, last call: addCodeMapping(consumerCode, cid, vcDigest, finalBatchId).
SubAddCode ==
    /\ sub.pc = "addCode"
    /\ \E ok \in BOOLEAN :
          /\ ls' = addCodeMapping(ls, sub.consumerCode, sub.cid, sub.vcDigest,
                                  sub.finalBatch.id, ok)
          /\ sub' = [sub EXCEPT !.pc = "clear", !.steps = Append(@, "addCode"),
                         !.stored = Append(@, ok)]
    /\ UNCHANGED << now, uuidCtr, libVars, userId, form, ui, cidMemo, timers >>

\* Step 8 and finally: the draft is cleared, success is shown, the form is
\* reset, and the reset of batchData and claims re-runs the autosave effect.
SubClear ==
    /\ sub.pc = "clear"
    /\ ls' = clearDraftBatch(ls, userId)
    /\ ui' = [generalError |-> Null,
              submissionSuccess |-> "Batch submitted successfully! Consumer Code: "
                                       \o sub.consumerCode,
              isSubmitting |-> FALSE]
    /\ form' = EmptyForm
    /\ timers' = [autosave |-> TRUE, armedBy |-> "submit", redirect |-> TRUE]
    /\ sub' = [sub EXCEPT !.pc = "idle", !.outcome = "success",
                   !.steps = Append(@, "clear")]
    /\ UNCHANGED << now, uuidCtr, libVars, userId, cidMemo >>

Next ==
    \/ Tick
    \/ PageLoad
    \/ \E id \in LoginIds : handleFarmerLogin(id)
    \/ \E value \in ProductNames : handleInputChange(value)
    \/ \E type \in ClaimTypes : handleSaveClaim(type)
    \/ SubmitStart
    \/ SubGenCode
    \/ SubBatch
    \/ SubClaims
    \/ SubCid
    \/ SubVc
    \/ SubLog
    \/ SubAddBatch
    \/ SubAddClaim
    \/ SubAddCode
    \/ SubClear

Spec == Init /\ [][Next]_vars

\* ------------------------------------------------------------ two submitting tabs
\* handleFinalSubmit run by two tabs of one farmer on the same localStorage.
\* Each tab's steps 1 to 5 read storage only; its steps 6 and 7 are three
\* calls that write it. Nothing orders the calls of one tab against those
\* of the other. Every write is stored.
TabFarmer == "20230115-greenacres-1234"

\* Steps 1 to 5 in tab t, with rand the number its loop drew first.
TabPrepare(t, rand) ==
    /\ tabPc[t] = "idle"
    /\ uuidCtr + 2 <= MaxUuid
    /\ getFarmerById(ls, TabFarmer) # <<>>
    /\ NoCodeMapping(ls, consumerCodeOf(rand))
    /\ LET finalBatch ==
               [ id |-> uuidv4(uuidCtr + 1),
                 farmerId |-> TabFarmer,
                 farmerName |-> getFarmerById(ls, TabFarmer)[1].name,
                 productName |-> "Mangoes",
                 consumerCode |-> consumerCodeOf(rand),
                 cid |-> "",
                 vcDigest |-> "",
                 createdAt |-> toISOString(now) ]
           cid == computeCid(finalBatch, <<>>)
           r == issueVerifiableCredential(cid, TabFarmer, finalBatch.id,
                                          toISOString(now), uuidCtr + 1)
       IN  tabLocal' = [tabLocal EXCEPT ![t] =
                           [IdleTab EXCEPT !.code = consumerCodeOf(rand),
                                           !.c = cid,
                                           !.d = r.vcDigest,
                                           !.batch = [finalBatch EXCEPT
                                                         !.cid = cid,
                                                         !.vcDigest = r.vcDigest]]]
    /\ uuidCtr' = uuidCtr + 2
    /\ tabPc' = [tabPc EXCEPT ![t] = "prepared"]
    /\ UNCHANGED << ls, now, last, vc, orig, appVars, cidMemo, timers >>

\* Step 6 in tab t.
TabAppend(t) ==
    /\ tabPc[t] = "prepared"
    /\ ls' = appendToTransparencyLog(ls, tabLocal[t].d, tabLocal[t].c,
                                    toISOString(now), TRUE).store
    /\ tabPc' = [tabPc EXCEPT ![t] = "logged"]
    /\ UNCHANGED << now, uuidCtr, last, tabLocal, vc, orig, appVars, cidMemo, timers >>

\* Step 7 in tab t: addBatch.
TabAddBatch(t) ==
    /\ tabPc[t] = "logged"
    /\ ls' = addBatch(ls, tabLocal[t].batch, TRUE)
    /\ tabPc' = [tabPc EXCEPT ![t] = "batched"]
    /\ UNCHANGED << now, uuidCtr, last, tabLocal, vc, orig, appVars, cidMemo, timers >>

\* Step 7 in tab t: addCodeMapping; the tab then shows success.
TabAddCode(t) ==
    /\ tabPc[t] = "batched"
    /\ ls' = addCodeMapping(ls, tabLocal[t].code, tabLocal[t].c, tabLocal[t].d,
                            tabLocal[t].batch.id, TRUE)
    /\ tabPc' = [tabPc EXCEPT ![t] = "submitted"]
    /\ UNCHANGED << now, uuidCtr, last, tabLocal, vc, orig, appVars, cidMemo, timers >>

NextRace ==
    \/ Tick
    \/ SeedDataCall
    \/ \E t \in Tabs, rand \in Rands : TabPrepare(t, rand)
    \/ \E t \in Tabs : TabAppend(t)
    \/ \E t \in Tabs : TabAddBatch(t)
    \/ \E t \in Tabs : TabAddCode(t)

SpecRace == Init /\ [][NextRace]_vars

\* ------------------------------------------------------------ the consumer's lookup
UnknownMessage == "Invalid or unknown product hash key. No claims found."

\* A JavaScript boolean as shown in the verification status.
BoolString(b) == IF b THEN "true" ELSE "false"

\* Mutant of fetchData: the credential counts as valid only if the digest
\* recomputed during the lookup is the stored vcDigest.
fetchData_comparesDigest(s, code, ts, u) ==
    IF code = ""
    THEN [ view |-> [NoView EXCEPT !.error = "No product hash key provided."],
           uuids |-> 0 ]
    ELSE IF NoCodeMapping(s, code)
    THEN [ view |-> [NoView EXCEPT !.error = UnknownMessage], uuids |-> 0 ]
    ELSE LET codeMapping == getCodeMapping(s, code)
             fetchedBatch == getBatchById(s, codeMapping.batchId)
         IN  IF fetchedBatch = <<>>
             THEN [ view |-> [NoView EXCEPT
                                 !.error = "Batch data not found for this product."],
                    uuids |-> 0 ]
             ELSE LET r == issueVerifiableCredential(codeMapping.cid,
                                                     fetchedBatch[1].farmerId,
                                                     fetchedBatch[1].id, ts, u)
                      isVcValid == validateVcSignature(r.vcObject)
                      chk == checkTransparencyLog(s, codeMapping.vcDigest,
                                                  codeMapping.cid)
                  IN  [ view |-> [ error |-> Null,
                                   batchFound |-> TRUE,
                                   vcValid |-> BoolString(isVcValid = "true"
                                                 /\ r.vcDigest = codeMapping.vcDigest),
                                   logExists |-> BoolString(chk.exists),
                                   logConsistent |-> BoolString(chk.consistent) ],
                        uuids |-> 1 ]

\* Mutant of fetchData: the credential is issued before the index is asked.
fetchData_issuesFirst(s, code, ts, u) ==
    IF code = ""
    THEN [ view |-> [NoView EXCEPT !.error = "No product hash key provided."],
           uuids |-> 0 ]
    ELSE IF NoCodeMapping(s, code)
    THEN [ view |-> [NoView EXCEPT !.error = UnknownMessage], uuids |-> 1 ]
    ELSE [ view |-> [NoView EXCEPT !.error = "Batch data not found for this product."],
           uuids |-> 1 ]

\* ClaimsPage.fetchData for the code of the URL: what the page then shows,
\* and the number of uuids drawn. ts is new Date().toISOString() during the
\* call, u the number of uuids drawn before it.
fetchData(s, code, ts, u) ==
    IF code = ""
    THEN [ view |-> [NoView EXCEPT !.error = "No product hash key provided."],
           uuids |-> 0 ]
    ELSE IF NoCodeMapping(s, code)
    THEN [ view |-> [NoView EXCEPT !.error = UnknownMessage], uuids |-> 0 ]
    ELSE LET codeMapping == getCodeMapping(s, code)
             fetchedBatch == getBatchById(s, codeMapping.batchId)
         IN  IF fetchedBatch = <<>>
             THEN [ view |-> [NoView EXCEPT
                                 !.error = "Batch data not found for this product."],
                    uuids |-> 0 ]
             ELSE LET r == issueVerifiableCredential(codeMapping.cid,
                                                     fetchedBatch[1].farmerId,
                                                     fetchedBatch[1].id, ts, u)
                      isVcValid == validateVcSignature(r.vcObject)
                      chk == checkTransparencyLog(s, codeMapping.vcDigest,
                                                  codeMapping.cid)
                  IN  IF isVcValid = "TypeError"
                      THEN [ view |-> [NoView EXCEPT !.error = "TypeError",
                                                     !.batchFound = TRUE],
                             uuids |-> 1 ]
                      ELSE [ view |-> [ error |-> Null,
                                        batchFound |-> TRUE,
                                        vcValid |-> isVcValid,
                                        logExists |-> BoolString(chk.exists),
                                        logConsistent |-> BoolString(chk.consistent) ],
                             uuids |-> 1 ]

\* Codes a consumer opens /claims/<code> with: a seeded one, one of today's
\* form, one that is never bound, and none.
LookupCodes == { "AGRITRUST-1234", "AGRITRUST-YYMMDD-1000", "AGRITRUST-0000", "" }

FetchDataCall(code) ==
    /\ uuidCtr < MaxUuid
    /\ LET r == fetchData(ls, code, toISOString(now), uuidCtr)
       IN  /\ last' = [NoCall EXCEPT !.op = "fetch", !.code = code, !.view = r.view]
           /\ uuidCtr' = uuidCtr + r.uuids
    /\ UNCHANGED << ls, now, tabPc, tabLocal, vc, orig, appVars, cidMemo, timers >>

\* Whoever has the browser edits a stored index entry: its cid or its
\* vcDigest is replaced by another string.
TamperIndexCall(code, field) ==
    /\ ~NoCodeMapping(ls, code)
    /\ getCodeMapping(ls, code)[field] # "x"
    /\ ls' = [ls EXCEPT ![LS_KEY_CODES].val[code][field] = "x"]
    /\ UNCHANGED << now, uuidCtr, last, tabPc, tabLocal, vc, orig, appVars, cidMemo, timers >>

\* The same hand edits the stored batch a code leads to: its farmerId is
\* replaced by another string.
TamperBatchCall(code) ==
    /\ ~NoCodeMapping(ls, code)
    /\ \E i \in DOMAIN getBatches(ls) :
          /\ getBatches(ls)[i].id = getCodeMapping(ls, code).batchId
          /\ getBatches(ls)[i].farmerId # "x"
          /\ ls' = [ls EXCEPT ![LS_KEY_BATCHES].val[i].farmerId = "x"]
    /\ UNCHANGED << now, uuidCtr, last, tabPc, tabLocal, vc, orig, appVars, cidMemo, timers >>

NextView ==
    \/ Tick
    \/ SeedDataCall
    \/ \E rand \in Rands : TabPrepare(1, rand)
    \/ TabAppend(1)
    \/ TabAddBatch(1)
    \/ TabAddCode(1)
    \/ \E code \in LookupCodes : FetchDataCall(code)
    \/ \E code \in LookupCodes, field \in { "cid", "vcDigest" } :
          TamperIndexCall(code, field)
    \/ \E code \in LookupCodes : TamperBatchCall(code)

SpecView == Init /\ [][NextView]_vars

\* ------------------------------------------------------------ key order
\* A JavaScript object as JSON.stringify sees it: its keys with their
\* values, in the order the keys were inserted.
JsonKeys == { "productName", "variety", "lotSize" }
JsonValues == { "Mangoes", "100 kg" }

JsonObjects ==
    { o \in [1..Cardinality(JsonKeys) -> JsonKeys \X JsonValues] :
        \A i, j \in DOMAIN o : i # j => o[i][1] # o[j][1] }

\* JSON.stringify(o): the keys are written in insertion order.
RECURSIVE stringifyEntries(_)
stringifyEntries(o) ==
    IF o = <<>> THEN ""
    ELSE "\"" \o o[1][1] \o "\":\"" \o o[1][2] \o "\""
           \o (IF Len(o) > 1 THEN "," ELSE "") \o stringifyEntries(Tail(o))

JSONstringify(o) == "{" \o stringifyEntries(o) \o "}"

\* computeCid(data) for an object given with its key order.
computeCidOfObject(o) == sha256(JSONstringify(o))

\* computeCid(o); the object and the digest of the call before this one
\* are kept next to this one's.
CanonCall(o) ==
    /\ last' = IF last.op = "computeCid2"
               THEN [NoCall EXCEPT !.op = "computeCid2",
                                   !.args = << last.args[2], o >>,
                                   !.d = last.c,
                                   !.c = computeCidOfObject(o)]
               ELSE [NoCall EXCEPT !.op = "computeCid2",
                                   !.args = << o, o >>,
                                   !.d = computeCidOfObject(o),
                                   !.c = computeCidOfObject(o)]
    /\ UNCHANGED << ls, now, uuidCtr, tabPc, tabLocal, vc, orig, appVars, cidMemo, timers >>

NextCanon ==
    \E o \in JsonObjects : CanonCall(o)

SpecCanon == Init /\ [][NextCanon]_vars


\* ------------------------------------------------------------ the farmer's draft
\* The autosave timer fires 1000 ms after the last change of batchData or
\* claims: saveDraftBatch(userId, { batch, claims }). handleFinalSubmit yields
\* at its two awaits, so the timer can also fire there.
AutosaveFire ==
    /\ timers.autosave
    /\ userId # Null
    /\ sub.pc \in { "idle", "vc", "log" }
    /\ \E ok \in BOOLEAN : ls' = saveDraftBatch(ls, userId, form, ok)
    /\ timers' = [timers EXCEPT !.autosave = FALSE]
    /\ UNCHANGED << now, uuidCtr, libVars, appVars, cidMemo >>

\* The redirect timer fires 3000 ms after the success message was set, after
\* the autosave timer the same render set; the page is left for the claims
\* page and its pending autosave timer is cleared.
Redirect ==
    /\ timers.redirect
    /\ sub.pc = "idle"
    /\ ~(timers.autosave /\ timers.armedBy = "submit")
    /\ timers' = [NoTimer EXCEPT !.armedBy = timers.armedBy]
    /\ form' = EmptyForm
    /\ ui' = IdleUi
    /\ sub' = [sub EXCEPT !.pc = "away"]
    /\ UNCHANGED << ls, now, uuidCtr, libVars, userId, cidMemo >>

\* The farmer comes back to the farmer page after the redirect.
FarmerPageVisit ==
    /\ sub.pc = "away"
    /\ loadDraft(ls, userId)
    /\ sub' = [sub EXCEPT !.pc = "idle", !.outcome = "visited"]
    /\ UNCHANGED << ls, now, uuidCtr, libVars, userId, cidMemo >>

NextDraft ==
    \/ PageLoad
    \/ \E id \in LoginIds : handleFarmerLogin(id)
    \/ \E value \in ProductNames : handleInputChange(value)
    \/ SubmitStart
    \/ SubGenCode
    \/ SubBatch
    \/ SubClaims
    \/ SubCid
    \/ SubVc
    \/ SubLog
    \/ SubAddBatch
    \/ SubAddClaim
    \/ SubAddCode
    \/ SubClear
    \/ AutosaveFire
    \/ Redirect
    \/ FarmerPageVisit

SpecDraft == Init /\ [][NextDraft]_vars


\* ------------------------------------------------------------ finalising the batch
\* JavaScript values of the form fields: undefined, a string, a number.
JsUndefined == [t |-> "undefined", s |-> "", n |-> 0]
JsString(s) == [t |-> "string", s |-> s, n |-> 0]
JsNumber(n) == [t |-> "number", s |-> "", n |-> n]

\* Questions of the form that are modelled, by type and required flag.
TextFields == { "productName", "micronutrients" }
NumberFields == { "nitrogenLevel", "soilPh", "humidity", "temperature" }
RequiredFields == { "productName", "nitrogenLevel", "soilPh", "humidity", "temperature" }
FormFields == TextFields \cup NumberFields

\* What is typed into a text input and into a number input.
TypedTexts == { "", "Mangoes" }
TypedNumbers == { "", "-1", "0", "6", "101" }

\* Number(value) for the typed numbers.
NumberOf(value) ==
    CASE value = "-1" -> 0 - 1
      [] value = "0" -> 0
      [] value = "6" -> 6
      [] value = "101" -> 101

\* processedValue of handleInputChange.
processedValue(field, value) ==
    IF field \in NumberFields
    THEN IF value = "" THEN JsString("") ELSE JsNumber(NumberOf(value))
    ELSE JsString(value)

\* useState({}): no field is set.
EmptyBatchData == [f \in FormFields |-> JsUndefined]

\* The error test of validateAllInputs for one question.
fieldError(field, value) ==
    IF field \in RequiredFields /\ (value.t = "undefined" \/ value = JsString(""))
    THEN TRUE
    ELSE IF value.t # "undefined" /\ value # JsString("") /\ field \in NumberFields
    THEN \/ field = "soilPh" /\ (value.n < 0 \/ value.n > 14)
         \/ field = "nitrogenLevel" /\ value.n < 0
         \/ field = "humidity" /\ (value.n < 0 \/ value.n > 100)
    ELSE FALSE

validateAllFields(batchData) == \A f \in FormFields : ~fieldError(f, batchData[f])

\* x || d on these values: 0, '' and undefined are falsy.
JsOr(x, d) ==
    IF x.t = "undefined" \/ x = JsString("") \/ x = JsNumber(0) THEN d ELSE x

\* The fields of finalBatch that come from batchData.
finalBatchOf(batchData) ==
    [ productName |-> JsOr(batchData.productName, JsString("Unknown Product")),
      micronutrients |-> JsOr(batchData.micronutrients, JsString("Not specified")),
      nitrogenLevel |-> JsOr(batchData.nitrogenLevel, JsNumber(0)),
      soilPh |-> JsOr(batchData.soilPh, JsNumber(7)),
      humidity |-> JsOr(batchData.humidity, JsNumber(0)),
      temperature |-> JsOr(batchData.temperature, JsNumber(0)) ]

\* handleInputChange(e, field, type) on the batchData of the last call.
InputCall(field, value) ==
    /\ last.op \in { "none", "input", "finalBatch" }
    /\ LET prev == IF last.op = "none" THEN EmptyBatchData ELSE last.args[1]
       IN  last' = [NoCall EXCEPT !.op = "input",
                       !.args = << [prev EXCEPT ![field] = processedValue(field, value)] >>]
    /\ UNCHANGED << ls, now, uuidCtr, tabPc, tabLocal, vc, orig, appVars, cidMemo, timers >>

\* validateAllInputs() and step 2 of handleFinalSubmit on that batchData.
FinalBatchCall ==
    /\ last.op = "input"
    /\ last' = [NoCall EXCEPT !.op = "finalBatch",
                   !.valid = BoolString(validateAllFields(last.args[1])),
                   !.args = << last.args[1], finalBatchOf(last.args[1]) >>]
    /\ UNCHANGED << ls, now, uuidCtr, tabPc, tabLocal, vc, orig, appVars, cidMemo, timers >>

NextFinal ==
    \/ \E f \in TextFields, value \in TypedTexts : InputCall(f, value)
    \/ \E f \in NumberFields, value \in TypedNumbers : InputCall(f, value)
    \/ FinalBatchCall

SpecFinal == Init /\ [][NextFinal]_vars


\* ------------------------------------------------------------ unreadable stored values
\* The collections getLocalStorageItem is asked for with an empty default.
CollectionKeys ==
    { LS_KEY_TRANSPARENCY_LOG, LS_KEY_CODES, LS_KEY_BATCHES, LS_KEY_CLAIMS }

\* The text stored under the key is one JSON.parse throws on.
Corrupt == [st |-> "corrupt", val |-> <<>>]

\* Something outside the application overwrites the stored text.
CorruptCall(key) ==
    /\ ls[key] # Corrupt
    /\ ls' = [ls EXCEPT ![key] = Corrupt]
    /\ last' = [NoCall EXCEPT !.op = "corrupt", !.code = key]
    /\ UNCHANGED << now, uuidCtr, tabPc, tabLocal, vc, orig, appVars, cidMemo, timers >>

AddBatchCall(id) ==
    /\ Len(getBatches(ls)) < MaxLog - 1
    /\ \E ok \in BOOLEAN : ls' = addBatch(ls, [NoBatch EXCEPT !.id = id], ok)
    /\ last' = [NoCall EXCEPT !.op = "addBatch", !.code = id]
    /\ UNCHANGED << now, uuidCtr, tabPc, tabLocal, vc, orig, appVars, cidMemo, timers >>

AddClaimCall(id) ==
    /\ Len(getClaims(ls)) < MaxLog - 1
    /\ \E ok \in BOOLEAN :
          ls' = addClaim(ls, [id |-> "k-" \o id, batchId |-> id, type |-> "Organic",
                              createdAt |-> toISOString(now)], ok)
    /\ last' = [NoCall EXCEPT !.op = "addClaim", !.code = id]
    /\ UNCHANGED << now, uuidCtr, tabPc, tabLocal, vc, orig, appVars, cidMemo, timers >>

NextCorrupt ==
    \/ \E key \in CollectionKeys : CorruptCall(key)
    \/ \E d \in Digests : AppendCall(d, "c1")
    \/ \E code \in IndexCodes : AddCodeMappingCall(code, "c1", "d1", "b1")
    \/ \E id \in BatchIds : AddBatchCall(id)
    \/ \E id \in BatchIds : AddClaimCall(id)

SpecCorrupt == Init /\ [][NextCorrupt]_vars


\* ------------------------------------------------------------ credential fields
\* The string fields of a credential: those validateVcSignature reads and
\* the others issueVerifiableCredential writes.
SignedFields == { "cid", "batchId", "issuer", "created", "signatureValue" }
OtherFields ==
    { "id", "issuanceDate", "farmerId", "subjectId", "proofType", "verificationMethod" }

FieldDiff(a, b) == { f \in SignedFields \cup OtherFields : a[f] # b[f] }

\* The holder of a credential overwrites one of its string fields.
FieldTamperCall(f, x) ==
    /\ vc.kind = "object"
    /\ vc[f] # x
    /\ Cardinality(FieldDiff([vc EXCEPT ![f] = x], orig)) <= MaxTamper
    /\ vc' = [vc EXCEPT ![f] = x]
    /\ last' = [NoCall EXCEPT !.op = "tamper"]
    /\ UNCHANGED << ls, now, uuidCtr, tabPc, tabLocal, orig, appVars, cidMemo, timers >>

NextFields ==
    \/ \E cid \in Cids, f \in FarmerIds, b \in BatchIds : IssueCall(cid, f, b)
    \/ \E f \in SignedFields \cup OtherFields, x \in TamperValues : FieldTamperCall(f, x)
    \/ ValidateCall

SpecFields == Init /\ [][NextFields]_vars


\* ------------------------------------------------------------ farmer IDs
\* Strings whose characters matter are sequences of one-character strings.
MaxFarmers == 2

Digit == { "0", "1", "2", "3", "4", "5", "6", "7", "8", "9" }
LowerLetter ==
    { "a", "b", "c", "d", "e", "f", "g", "h", "i", "j", "k", "l", "m",
      "n", "o", "p", "q", "r", "s", "t", "u", "v", "w", "x", "y", "z" }

\* Farm names typed into the generate-ID dialog, and the four digits drawn.
FarmNames ==
    { << "O", "m" >>, << "a", " ", "b" >>, << "a", "-", "b" >>, << "b", "2" >>,
      << " " >> }
RandDigits == { << "1", "0", "0", "0" >>, << "1", "0", "0", "1" >> }

\* year, month and day of new Date(), padded.
DateDigits == << "2", "0", "2", "3", "0", "1", "1", "5" >>

RECURSIVE JoinChars(_)
JoinChars(cs) == IF cs = <<>> THEN "" ELSE cs[1] \o JoinChars(Tail(cs))

\* toLowerCase() and toUpperCase() of one character of the names.
toLowerCase(c) == IF c = "O" THEN "o" ELSE c
toUpperCase(c) ==
    CASE c = "o" -> "O" [] c = "a" -> "A" [] c = "b" -> "B" [] c = "m" -> "M"
      [] OTHER -> c

\* name.trim() is empty.
IsBlank(cs) == \A i \in DOMAIN cs : cs[i] = " "

\* farmerNameInput.toLowerCase().replace(/\s/g, '')
sanitizedName(cs) ==
    SelectSeq([i \in DOMAIN cs |-> toLowerCase(cs[i])], LAMBDA c : c # " ")

\* `${year}${month}${day}-${sanitizedName}-${rand}`
newFarmerIdOf(name, rand) ==
    DateDigits \o << "-" >> \o sanitizedName(name) \o << "-" >> \o rand

\* farmerId.split('-')
RECURSIVE splitHyphen(_)
splitHyphen(cs) ==
    LET at == { i \in DOMAIN cs : cs[i] = "-" }
    IN  IF at = {} THEN << cs >>
        ELSE LET i == CHOOSE k \in at : \A m \in at : k <= m
             IN  << SubSeq(cs, 1, i - 1) >> \o splitHyphen(SubSeq(cs, i + 1, Len(cs)))

\* FARMER_ID_REGEX.test(id): /^\d{8}-[a-z]+-\d{4}$/
FARMER_ID_REGEX(cs) ==
    /\ Len(cs) >= 15
    /\ \A i \in 1..8 : cs[i] \in Digit
    /\ cs[9] = "-"
    /\ \A i \in 10..(Len(cs) - 5) : cs[i] \in LowerLetter
    /\ cs[Len(cs) - 4] = "-"
    /\ \A i \in (Len(cs) - 3)..Len(cs) : cs[i] \in Digit

deriveFarmerInfoFromId(cs) ==
    LET parts == splitHyphen(cs)
    IN  IF Len(parts) = 3
        THEN [ name |-> IF parts[2] = <<>> THEN ""
                        ELSE toUpperCase(parts[2][1]) \o JoinChars(Tail(parts[2])),
               dateOfJoining |-> JoinChars(SubSeq(parts[1], 1, 4)) \o "-"
                                    \o JoinChars(SubSeq(parts[1], 5, 6)) \o "-"
                                    \o JoinChars(SubSeq(parts[1], 7, 8)) ]
        ELSE [name |-> "", dateOfJoining |-> ""]

addFarmer(s, farmer, ok) ==
    setLocalStorageItem(s, LS_KEY_FARMERS, Append(getFarmers(s), farmer), ok)

\* What handleFarmerLogin does with the ID typed in: "ok", or the error.
farmerLoginResult(s, cs) ==
    IF IsBlank(cs) THEN "Farmer ID cannot be empty."
    ELSE IF ~FARMER_ID_REGEX(cs) THEN "Invalid Farmer ID format."
    ELSE IF getFarmerById(s, JoinChars(cs)) = <<>> THEN "Farmer ID not found."
    ELSE "ok"

\* handleGenerateNewFarmerId with this name typed in: the ID is built with
\* the first drawn number that gives an unused ID, the farmer is stored and
\* logged in; eleven draws of used IDs end in the error.
GenerateCall(name) ==
    /\ Len(getFarmers(ls)) < MaxFarmers
    /\ IF IsBlank(name)
       THEN /\ last' = [NoCall EXCEPT !.op = "generate", !.valid = "false"]
            /\ UNCHANGED << ls, userId >>
       ELSE \/ \E rand \in RandDigits :
                 LET cs == newFarmerIdOf(name, rand)
                     info == deriveFarmerInfoFromId(cs)
                 IN  /\ getFarmerById(ls, JoinChars(cs)) = <<>>
                     /\ \E ok1, ok2 \in BOOLEAN :
                           ls' = setLocalStorageItem(
                                    addFarmer(ls, [ id |-> JoinChars(cs),
                                                    name |-> info.name,
                                                    dateOfJoining |-> info.dateOfJoining ],
                                              ok1),
                                    LS_KEY_AUTH_STATE, JoinChars(cs), ok2)
                     /\ userId' = JoinChars(cs)
                     /\ last' = [NoCall EXCEPT !.op = "generate", !.valid = "true",
                                    !.code = JoinChars(cs), !.args = << cs >>]
            \/ /\ \E rand \in RandDigits :
                     getFarmerById(ls, JoinChars(newFarmerIdOf(name, rand))) # <<>>
               /\ last' = [NoCall EXCEPT !.op = "generate", !.valid = "false"]
               /\ UNCHANGED << ls, userId >>
    /\ UNCHANGED << now, uuidCtr, tabPc, tabLocal, vc, orig, form, ui, sub, cidMemo, timers >>

\* The farmer logs out and types the generated ID into the login form.
LoginGeneratedCall ==
    /\ last.op = "generate"
    /\ last.valid = "true"
    /\ LET r == farmerLoginResult(ls, last.args[1])
       IN  /\ last' = [last EXCEPT !.op = "login", !.view.error = r]
           /\ userId' = IF r = "ok" THEN last.code ELSE Null
           /\ \E ok \in BOOLEAN :
                 ls' = IF r = "ok"
                       THEN setLocalStorageItem(removeItem(ls, LS_KEY_AUTH_STATE),
                                                LS_KEY_AUTH_STATE, last.code, ok)
                       ELSE removeItem(ls, LS_KEY_AUTH_STATE)
    /\ UNCHANGED << now, uuidCtr, tabPc, tabLocal, vc, orig, form, ui, sub, cidMemo, timers >>

NextIds ==
    \/ SeedDataCall
    \/ \E name \in FarmNames : GenerateCall(name)
    \/ LoginGeneratedCall

SpecIds == Init /\ [][NextIds]_vars

\* ------------------------------------------------------------ properties
TheLog == getTransparencyLog(ls)

IsPrefix(a, b) == Len(a) <= Len(b) /\ SubSeq(b, 1, Len(a)) = a

ChainOK(log) ==
    \A i \in 1..Len(log) :
        /\ log[i].index = i - 1
        /\ i = 1 => log[i].previousHash = Null
        /\ i > 1 => log[i].previousHash = log[i - 1].digest

\* C1: after any number of sequential appends, starting from the seeded or
\* the empty log, every entry's index is its position, the first entry's
\* previousHash is null and every later entry's previousHash is the digest
\* of the entry before it.
C1_ChainInvariant == ChainOK(TheLog)

\* C1 witness: an append has just extended the two-entry seeded log.
C1_Witness ==
    /\ last.op = "append"
    /\ Len(TheLog) = 3
    /\ TheLog[1].digest \notin Digests
    /\ TheLog[3].previousHash = TheLog[2].digest

\* C2: the persisted log is append-only: in every step of the program
\* (seedData, appendToTransparencyLog, checkTransparencyLog) the log before
\* the step is a prefix of the log after it.
C2_AppendOnly == [][IsPrefix(TheLog, TheLog')]_vars

\* C3: appendToTransparencyLog(vcDigest, cid) returns the length n it
\* observed, and after it returns the persisted log has length n + 1 and
\* its entry at position n has index n, digest vcDigest and cid cid.
C3_AppendReturnsAndPersists ==
    last.op = "append" =>
        /\ last.index = last.n
        /\ Len(TheLog) = last.n + 1
        /\ TheLog[last.n + 1].index = last.n
        /\ TheLog[last.n + 1].digest = last.d
        /\ TheLog[last.n + 1].cid = last.c

\* C4: two concurrent appendToTransparencyLog calls never both observe the
\* same length, and once both have stored their entry the two entries have
\* different indices, both are in the log and the chain is unbroken.
C4_ConcurrentAppendsSafe ==
    /\ (tabPc[1] = "read" /\ tabPc[2] = "read")
          => Len(tabLocal[1].log) # Len(tabLocal[2].log)
    /\ (\A t \in Tabs : tabPc[t] = "done" /\ tabLocal[t].stored)
          => /\ tabLocal[1].ret # tabLocal[2].ret
             /\ \A t \in Tabs :
                    /\ Len(TheLog) > tabLocal[t].ret
                    /\ TheLog[tabLocal[t].ret + 1].digest = tabLocal[t].d
                    /\ TheLog[tabLocal[t].ret + 1].cid = tabLocal[t].c
             /\ ChainOK(TheLog)

\* Positions of the entries of the log whose digest is d.
Matches(log, d) == { i \in 1..Len(log) : log[i].digest = d }

FirstMatch(log, d) ==
    CHOOSE i \in Matches(log, d) : \A j \in Matches(log, d) : i <= j

\* C5 as claimed: checkTransparencyLog(vcDigest, cid) returns
\* {exists: true, consistent: true} iff some entry of the log has digest
\* vcDigest and cid cid, and {exists: false, consistent: false} if no entry
\* has that digest.
C5_CheckIffSomeEntry ==
    last.op = "check" =>
        /\ (last.exists /\ last.consistent)
              <=> \E i \in Matches(TheLog, last.d) : TheLog[i].cid = last.c
        /\ Matches(TheLog, last.d) = {} => (~last.exists /\ ~last.consistent)

\* C5 amended: checkTransparencyLog(vcDigest, cid) returns exists = true
\* iff some entry has digest vcDigest, and consistent = true iff moreover
\* the FIRST such entry's cid is cid.
C5_CheckFirstMatch ==
    last.op = "check" =>
        /\ last.exists <=> Matches(TheLog, last.d) # {}
        /\ last.consistent
              <=> /\ Matches(TheLog, last.d) # {}
                  /\ TheLog[FirstMatch(TheLog, last.d)].cid = last.c

\* C5 witness: the log holds two entries with the digest asked for, the
\* second one with the cid asked for, the first one with another cid.
C5_Witness ==
    /\ last.op = "check"
    /\ \E i, j \in Matches(TheLog, last.d) :
          /\ i < j
          /\ i = FirstMatch(TheLog, last.d)
          /\ TheLog[i].cid # last.c
          /\ TheLog[j].cid = last.c
    /\ last.exists /\ ~last.consistent

\* C6: validateVcSignature applied to the credential that
\* issueVerifiableCredential returned, unchanged, returns true.
C6_RoundTrip ==
    (last.op = "validate" /\ orig.kind = "object" /\ vc = orig)
        => last.valid = "true"

\* C6 witness: an issued credential has been validated as it was issued.
C6_Witness ==
    /\ last.op = "validate"
    /\ orig.kind = "object"
    /\ vc = orig
    /\ vc.batchId = "b1-x"

\* C7: an issued credential in which exactly one of proof.signatureValue,
\* credentialSubject.cid and issuer has been changed to a different value
\* does not validate.
C7_TamperDetected ==
    ( /\ last.op = "validate"
      /\ orig.kind = "object"
      /\ \E f \in { "signatureValue", "cid", "issuer" } : Diff(vc, orig) = { f } )
        => last.valid = "false"

\* C7 witness: a credential whose cid alone was replaced by another string
\* has been validated.
C7_Witness ==
    /\ last.op = "validate"
    /\ orig.kind = "object"
    /\ Diff(vc, orig) = { "cid" }
    /\ vc.cid = "x"

\* A part of the credential is absent: the credential itself, its proof,
\* or the named field.
AbsentIn(v, f) ==
    \/ v.kind = "null"
    \/ f \in { "signatureValue", "created" } /\ ~v.hasProof
    \/ v[f] = Undefined

\* C8: validateVcSignature fails closed: when proof.signatureValue,
\* proof.created or issuer is absent (the credential null, the proof
\* missing, or the field undefined) it returns false and does not throw.
C8_FailsClosed ==
    ( /\ last.op = "validate"
      /\ \E f \in { "signatureValue", "created", "issuer" } : AbsentIn(vc, f) )
        => last.valid = "false"

\* C8 witness: a credential without proof and without credentialSubject
\* has been validated.
C8_Witness ==
    /\ last.op = "validate"
    /\ vc.kind = "object"
    /\ ~vc.hasProof
    /\ ~vc.hasSubject

\* C9: validateVcSignature returns a boolean for every credential object,
\* one with proof and issuer but no credentialSubject included; it never
\* throws.
C9_ValidateNeverThrows ==
    last.op = "validate" => last.valid \in { "true", "false" }

\* The steps of a handleFinalSubmit call that ran to its end, in order.
SubmissionSteps ==
    << "code", "batch", "claims", "cid", "vc", "log", "addBatch", "addClaims",
       "addCode", "clear" >>

\* C10: a successful handleFinalSubmit has done its steps in the order code
\* generation, batch finalisation, claim stamping, computeCid,
\* issueVerifiableCredential, appendToTransparencyLog, addBatch/addClaim,
\* addCodeMapping, clearDraftBatch, none skipped, and has grown the log by
\* exactly 1; and in every reachable state every code of the lookup index
\* maps to {cid, vcDigest} for which checkTransparencyLog(vcDigest, cid)
\* returns {exists: true, consistent: true}.
C10_SubmissionOrdered ==
    /\ sub.outcome = "success" =>
          /\ sub.steps = SubmissionSteps
          /\ Len(TheLog) = sub.logLen0 + 1
    /\ \A code \in DOMAIN getCodes(ls) :
          checkTransparencyLog(ls, getCodeMapping(ls, code).vcDigest,
                               getCodeMapping(ls, code).cid)
             = [exists |-> TRUE, consistent |-> TRUE]

\* Records of the running or last handleFinalSubmit call that storage holds:
\* its code in the lookup index, its batch, its claims, its log entry.
SubmissionTraces(s) ==
    (IF sub.consumerCode \in DOMAIN getCodes(s) THEN { "index" } ELSE {})
      \cup (IF \E i \in 1..Len(getBatches(s)) :
                  getBatches(s)[i].id = sub.finalBatch.id
            THEN { "batch" } ELSE {})
      \cup (IF \E i \in 1..Len(getClaims(s)) :
                  getClaims(s)[i].batchId = sub.finalBatch.id
            THEN { "claim" } ELSE {})
      \cup (IF sub.vcDigest # "" /\ findByDigest(getTransparencyLog(s), sub.vcDigest) # <<>>
            THEN { "log" } ELSE {})

\* A step of the last handleFinalSubmit call failed: it threw, or one of its
\* storage writes was not stored.
SubmissionFailed ==
    /\ sub.pc = "idle"
    /\ \/ sub.outcome = "error"
       \/ /\ sub.outcome = "success"
          /\ \E i \in 1..Len(sub.stored) : ~sub.stored[i]

\* C11: submission is all-or-nothing: after a handleFinalSubmit call in
\* which a step failed (code generation, missing farmer, or a storage write
\* for log, batch, claims or index), the lookup index, the batches, the
\* claims and the transparency log hold no record of that submission.
C11_AllOrNothing ==
    SubmissionFailed => SubmissionTraces(ls) = {}


\* The last handleFinalSubmit call ended in its code-generation loop: no
\* step was completed although the farmer is on record.
CodeGenerationExhausted ==
    /\ sub.pc = "idle"
    /\ sub.outcome = "error"
    /\ sub.steps = <<>>
    /\ getFarmerById(sub.ls0, userId) # <<>>

\* C12: when every candidate code drawn in handleFinalSubmit is already in
\* the lookup index, the submission fails, the error is shown to the user
\* and the farmers, batches, claims, code-index, transparency-log and draft
\* storage are as they were before the call.
C12_ExhaustionLeavesStorage ==
    CodeGenerationExhausted =>
        /\ ui.generalError = ExhaustedMessage
        /\ ui.submissionSuccess = Null
        /\ ~ui.isSubmitting
        /\ \A k \in LsKeys \ { LS_KEY_AUTH_STATE } : ls[k] = sub.ls0[k]

\* C12 witness: a submission has ended in exhaustion on storage whose index
\* holds a code of today's form, bound by an earlier submission.
C12_Witness ==
    /\ CodeGenerationExhausted
    /\ \E rand \in Rands : ~NoCodeMapping(ls, consumerCodeOf(rand))
    /\ ui.generalError = ExhaustedMessage

\* C13: after any sequence of successful submissions run one after another,
\* no two persisted batches have the same consumerCode, and every
\* successful submission has added to the lookup index a key that was not
\* there before it.
C13_CodesUnique ==
    /\ \A i, j \in 1..Len(getBatches(ls)) :
          i # j => getBatches(ls)[i].consumerCode # getBatches(ls)[j].consumerCode
    /\ (sub.pc = "idle" /\ sub.outcome = "success") =>
          /\ sub.consumerCode \notin DOMAIN getCodes(sub.ls0)
          /\ sub.consumerCode \in DOMAIN getCodes(ls)

\* C14: lookup-index entries are write-once: no operation changes or
\* removes the binding of a code that is bound; addCodeMapping called again
\* with the same code and other values leaves the binding as it was.
C14_IndexWriteOnce ==
    [][\A code \in DOMAIN getCodes(ls) :
          /\ code \in DOMAIN getCodes(ls')
          /\ getCodeMapping(ls', code) = getCodeMapping(ls, code)]_vars

\* C15: two submissions whose steps interleave on shared storage never end
\* up bound to the same consumer code, and neither one's index entry is
\* overwritten by the other's.
C15_NoSharedCode ==
    (\A t \in Tabs : tabPc[t] = "submitted") =>
        /\ tabLocal[1].code # tabLocal[2].code
        /\ \A t \in Tabs :
              /\ tabLocal[t].code \in DOMAIN getCodes(ls)
              /\ getCodeMapping(ls, tabLocal[t].code)
                    = [ cid |-> tabLocal[t].c, vcDigest |-> tabLocal[t].d,
                        batchId |-> tabLocal[t].batch.id ]

\* C16: a storage fault in a write made by appendToTransparencyLog,
\* addBatch, addClaim or addCodeMapping reaches the caller: a submission
\* during which a write was not stored is reported as failed, never as
\* 'Batch submitted successfully'.
C16_FaultsPropagate ==
    (\E i \in 1..Len(sub.stored) : ~sub.stored[i]) =>
        /\ sub.outcome # "success"
        /\ ui.submissionSuccess = Null
        /\ sub.pc = "idle" => ui.generalError # Null

\* The credential issued for the code at submission was issued over another
\* cid than the one the index now holds for the code: by C7 that credential
\* does not validate with the cid on record.
CredentialAltered(s, code) ==
    /\ tabPc[1] = "submitted"
    /\ tabLocal[1].code = code
    /\ ~NoCodeMapping(s, code)
    /\ getBatchById(s, getCodeMapping(s, code).batchId) # <<>>
    /\ getCodeMapping(s, code).cid # tabLocal[1].c

\* C17: ClaimsPage.fetchData tells three trust states apart: (1) a code
\* unknown to the index ends in the unknown-code error; (2) a code found
\* whose credential does not validate is shown with vcValid false; (3) a
\* code found whose credential validates but whose vcDigest is absent from
\* or inconsistent in the log is shown with vcValid true and the log flags
\* not both true.
C17_ThreeTrustStates ==
    [][\A code \in LookupCodes \ { "" } :
          FetchDataCall(code) =>
              /\ NoCodeMapping(ls, code) => last'.view.error = UnknownMessage
              /\ CredentialAltered(ls, code) => last'.view.vcValid = "false"
              /\ ( /\ last'.view.error = Null
                   /\ ~CredentialAltered(ls, code)
                   /\ checkTransparencyLog(ls, getCodeMapping(ls, code).vcDigest,
                                           getCodeMapping(ls, code).cid)
                         # [exists |-> TRUE, consistent |-> TRUE] )
                    => /\ last'.view.vcValid = "true"
                       /\ << last'.view.logExists, last'.view.logConsistent >>
                             # << "true", "true" >>]_vars

C19_Rederivable ==
    [][\A cid \in Cids, f \in FarmerIds, b \in BatchIds :
          ( /\ IssueCall(cid, f, b)
            /\ orig.kind = "object"
            /\ orig.cid = cid /\ orig.farmerId = f /\ orig.batchId = b
            /\ orig.created = toISOString(now) )
              => /\ orig' = orig
                 /\ sha256(stringifyVc(orig')) = sha256(stringifyVc(orig))]_vars

SameContent(o1, o2) == { o1[i] : i \in DOMAIN o1 } = { o2[i] : i \in DOMAIN o2 }

\* C21: two payloads that hold the same keys with the same values and
\* differ only in the order in which the keys were inserted have the same
\* computeCid.
C21_Canonical ==
    (last.op = "computeCid2" /\ SameContent(last.args[1], last.args[2]))
        => last.d = last.c

\* C22: for every code C bound in the lookup index to {cid, vcDigest,
\* batchId} the batch store holds a batch with id batchId whose cid,
\* vcDigest and consumerCode are cid, vcDigest and C; and after a
\* successful submission every claim of that submission is stored with the
\* batch's id.
C22_StoresAgree ==
    /\ \A code \in DOMAIN getCodes(ls) :
          LET m == getCodeMapping(ls, code)
              b == getBatchById(ls, m.batchId)
          IN  /\ b # <<>>
              /\ b[1].cid = m.cid
              /\ b[1].vcDigest = m.vcDigest
              /\ b[1].consumerCode = code
    /\ (sub.pc = "idle" /\ sub.outcome = "success") =>
          \A i \in 1..Len(sub.finalClaims) :
              \E j \in 1..Len(getClaims(ls)) :
                  /\ getClaims(ls)[j].id = sub.finalClaims[i].id
                  /\ getClaims(ls)[j].batchId = sub.finalBatch.id

\* C23: after a successful handleFinalSubmit, and until the farmer next
\* edits the form, no draft is stored under the farmer's draft key (also
\* once the autosave timer has fired and the redirect has happened), and a
\* visit to the farmer page after the redirect loads no draft.
C23_DraftStaysCleared ==
    /\ (sub.outcome = "success" /\ timers.armedBy = "submit")
          => ~hasDraftBatch(ls, userId)
    /\ sub.outcome = "visited" => ui.generalError # DraftLoadedMessage

\* C24: when validateAllInputs passes, every number and every non-empty
\* text the farmer put into the draft is in the finalised batch unchanged;
\* defaults go only to fields the draft does not hold.
C24_DefaultsOnlyForAbsent ==
    (last.op = "finalBatch" /\ last.valid = "true")
       => \A f \in FormFields :
             (last.args[1][f].t = "number"
                 \/ (last.args[1][f].t = "string" /\ last.args[1][f].s # ""))
                => last.args[2][f] = last.args[1][f]

\* C25: a write call that finds the stored text of its collection
\* unparseable reads the empty default without raising and leaves under the
\* key exactly the one element it added (for the log: index 0 and
\* previousHash null), in place of what was stored.
C25_ReadDefaultThenOverwrite ==
    [][ /\ (ls[LS_KEY_TRANSPARENCY_LOG] = Corrupt
               /\ \E d \in Digests : AppendCall(d, "c1"))
           => /\ last'.index = 0
              /\ ls'[LS_KEY_TRANSPARENCY_LOG].st = "json"
              /\ Len(getTransparencyLog(ls')) = 1
              /\ getTransparencyLog(ls')[1].index = 0
              /\ getTransparencyLog(ls')[1].previousHash = Null
        /\ (ls[LS_KEY_CODES] = Corrupt
               /\ \E code \in IndexCodes : AddCodeMappingCall(code, "c1", "d1", "b1"))
           => ls'[LS_KEY_CODES].st = "json" /\ Cardinality(DOMAIN getCodes(ls')) = 1
        /\ (ls[LS_KEY_BATCHES] = Corrupt /\ \E id \in BatchIds : AddBatchCall(id))
           => ls'[LS_KEY_BATCHES].st = "json" /\ Len(getBatches(ls')) = 1
        /\ (ls[LS_KEY_CLAIMS] = Corrupt /\ \E id \in BatchIds : AddClaimCall(id))
           => ls'[LS_KEY_CLAIMS].st = "json" /\ Len(getClaims(ls')) = 1
      ]_vars

\* C26: whenever fetchData finds the code in the index and its batch in the
\* batch store, the vcValid it shows is true, whatever the stored vcDigest,
\* the stored cid, the batch and the transparency log hold.
C26_VcValidAlwaysTrue ==
    (last.op = "fetch" /\ last.view.batchFound) => last.view.vcValid = "true"

\* A lookup that showed a valid credential although the index entry's cid
\* and vcDigest and the batch's farmerId were overwritten and the log has
\* no entry for the digest.
C26_Witness ==
    /\ last.op = "fetch"
    /\ last.view.batchFound
    /\ last.view.vcValid = "true"
    /\ last.view.logExists = "false"
    /\ ~NoCodeMapping(ls, last.code)
    /\ getCodeMapping(ls, last.code).cid = "x"
    /\ getCodeMapping(ls, last.code).vcDigest = "x"
    /\ getBatchById(ls, getCodeMapping(ls, last.code).batchId)[1].farmerId = "x"

\* C27: the cid stored with a submitted batch is computeCid of that stored
\* batch with cid and vcDigest set back to '' and of its stored claims, and
\* is not computeCid of the batch and claims as they are stored.
C27_CidOverBlankFields ==
    (sub.pc = "idle" /\ sub.outcome = "success")
       => \A i \in DOMAIN getBatches(ls) :
             LET b == getBatches(ls)[i]
                 stored == getClaimsByBatchId(ls, b.id)
             IN  b.id = sub.finalBatch.id
                    => /\ b.cid = computeCid([b EXCEPT !.cid = "", !.vcDigest = ""],
                                             stored)
                       /\ b.cid # computeCid(b, stored)

\* C28: the result of validateVcSignature does not change when the
\* credential's id, issuanceDate, credentialSubject.farmerId,
\* credentialSubject.id, proof.type or proof.verificationMethod is
\* replaced, so it is a function of cid, batchId, issuer, created and
\* signatureValue; and an issued credential whose batchId or created was
\* changed does not validate.
C28_DependsOnFiveFields ==
    (last.op = "validate" /\ orig.kind = "object")
       => /\ \A f \in OtherFields, x \in TamperValues \cup { "", "y" } :
                validateVcSignature([vc EXCEPT ![f] = x]) = last.valid
          /\ FieldDiff(vc, orig) \cap { "batchId", "created" } # {}
                => last.valid = "false"
          /\ FieldDiff(vc, orig) \subseteq OtherFields => last.valid = "true"

\* An issued credential whose issuanceDate and farmerId were replaced has
\* been validated, and it validated.
C28_Witness ==
    /\ last.op = "validate"
    /\ orig.kind = "object"
    /\ FieldDiff(vc, orig) = { "issuanceDate", "farmerId" }
    /\ last.valid = "true"

\* An issued credential whose batchId alone was replaced has been
\* validated.
C28_WitnessBatchId ==
    /\ last.op = "validate"
    /\ orig.kind = "object"
    /\ FieldDiff(vc, orig) = { "batchId" }

C30_FarmerIdRoundTrip ==
    /\ (last.op = "generate" /\ last.valid = "true")
          => /\ Len(getFarmerById(ls, last.code)) = 1
             /\ Len(splitHyphen(last.args[1])) = 3
             /\ FARMER_ID_REGEX(last.args[1])
    /\ last.op = "login" => last.view.error = "ok"

====
